---------------------------- MODULE Spec2Model ----------------------------
(***************************************************************************)
(* A model of ffc's optimised quadrature transformer                       *)
(* (ffc/compiler/quadrature/optimisedquadraturetransformer.py).            *)
(*                                                                         *)
(* The transformer turns the operands of a UFL node, each an index-keyed   *)
(* code map (a Python dict from a tuple of index assignments to a symbolic *)
(* expression), into the code map of the node.  The symbolic expressions   *)
(* come from the module symbolics and the permutations from                *)
(* quadraturegenerator_utils; both are modelled after their contracts.     *)
(***************************************************************************)
EXTENDS Integers, Sequences, FiniteSets, TLC

VARIABLES
    op,                 \* the handler or helper called last ("init" before any)
    args,               \* the arguments of that call
    ret,                \* what it returned (NoValue when it raised)
    err,                \* "none", or the exception that ended the call
    terms,              \* the local list of generated terms of the last call
    node_code,          \* the code map the last visit of a terminal produced
    calls,              \* the number of visits of the terminal so far
    terminal,           \* the terminal of the integrand that is visited
    expo,               \* the exponent of the Power node that is visited
    optimise_options,   \* self.optimise_options
    restriction,        \* self.restriction: "+", "-" or "None"
    points,             \* self.points: the number of integration points
    psi_tables_map,     \* self.psi_tables_map: BASIS symbol -> table name
    used_psi_tables,    \* self.used_psi_tables: set of table names
    ip_consts,          \* self.ip_consts: the hoisted IP expressions
    geo_consts,         \* self.geo_consts: the hoisted GEO expressions
    sums,               \* compiler.py: the sums the form compiler is given
    language,           \* compiler.py: the language it is asked for
    options,            \* compiler.py: the options dictionary of the caller
    output,             \* compiler.py: what was printed, and the calls of the format
    snippet,            \* format_code.py: the code given to a constructor or to format_code
    level,              \* format_code.py: the level of indentation asked for
    format_tables,      \* dolfin.py, dolfinswig.py: the format dictionaries of the modules
    projections,        \* compiler.py: the projections of __compute_coefficients
    the_form            \* dolfinswig.py: the form whose eval bodies are generated

self == <<optimise_options, restriction, points, psi_tables_map, used_psi_tables,
          ip_consts, geo_consts>>

emitter == <<snippet, level, format_tables, projections, the_form>>

driver == <<sums, language, options, output, emitter>>

vars == <<op, args, ret, err, terms, node_code, calls, terminal, expo, self, driver>>

\* The transformer runs without the driver of compiler.py.
NoEmitter ==
    /\ snippet = <<>> /\ level = 0
    /\ format_tables = <<>> /\ projections = <<>> /\ the_form = <<>>

NoDriver == sums = <<>> /\ language = "" /\ options = <<>> /\ output = <<>> /\ NoEmitter

(***************************************************************************)
(* Bounds of the model.                                                    *)
(***************************************************************************)
MaxOperands == 3
\* self.geo_dim, the geometric dimension of the cell.
GeoDim == 2
\* ffc_element.space_dimension() of the one element of the form.
SpaceDimension == 3
\* The visits of the terminal in one run of the transformer.
MaxCalls == 1
\* The operands of abs, of a math function and of power.
MaxWrapped == 2
\* The largest integer exponent of a Power node.
MaxExponent == 3

\* What a call that raised leaves in ret.
NoValue == "no value"

(***************************************************************************)
(* symbolics: expressions.  Every expression is a record                   *)
(*   k  the class: "float", "sym", "prod", "sum", "frac"                   *)
(*   v  the attribute val (the value of a float, 1 otherwise)              *)
(*   n  the name of a symbol, a sequence of strings (its text, in pieces)  *)
(*   t  the domain tag: "BASIS", "IP", "GEO" or "CONST"                    *)
(*   a  the children (factors, addends, or numerator and denominator)      *)
(*   b  base_expr, as a sequence of no or one expression; o  base_op       *)
(***************************************************************************)
\* The tag of a composite: the least constant tag among its children.
WidestTag(s) ==
    IF \E i \in 1..Len(s) : s[i].t = "BASIS" THEN "BASIS"
    ELSE IF \E i \in 1..Len(s) : s[i].t = "IP" THEN "IP"
    ELSE IF \E i \in 1..Len(s) : s[i].t = "GEO" THEN "GEO"
    ELSE "CONST"

CreateFloat(x) ==
    [k |-> "float", v |-> x, n |-> <<>>, t |-> "CONST", a |-> <<>>, b |-> <<>>, o |-> 0]

CreateSymbol(name, tag) ==
    [k |-> "sym", v |-> 1, n |-> name, t |-> tag, a |-> <<>>, b |-> <<>>, o |-> 0]

IsFloat(e) == e.k = "float"
IsNotFloat(e) == e.k # "float"
IsZero(e) == e.k = "float" /\ e.v = 0

RECURSIVE FlattenKind(_, _)
FlattenKind(kind, s) ==
    IF s = <<>> THEN <<>>
    ELSE (IF Head(s).k = kind THEN Head(s).a ELSE <<Head(s)>>) \o FlattenKind(kind, Tail(s))

RECURSIVE FloatProduct(_)
FloatProduct(s) ==
    IF s = <<>> THEN 1
    ELSE (IF IsFloat(Head(s)) THEN Head(s).v ELSE 1) * FloatProduct(Tail(s))

RECURSIVE FloatSum(_)
FloatSum(s) ==
    IF s = <<>> THEN 0
    ELSE (IF IsFloat(Head(s)) THEN Head(s).v ELSE 0) + FloatSum(Tail(s))

\* create_product: nested products are flattened, a literal 0.0 factor makes
\* the product 0.0, the literal factors are folded into one and a literal 1.0
\* is dropped.
CreateProduct(variables) ==
    LET flat == FlattenKind("prod", variables)
        coef == FloatProduct(flat)
        rest == SelectSeq(flat, IsNotFloat)
        all  == IF coef = 1 THEN rest ELSE <<CreateFloat(coef)>> \o rest
    IN  IF \E i \in 1..Len(flat) : IsZero(flat[i]) THEN CreateFloat(0)
        ELSE IF rest = <<>> THEN CreateFloat(coef)
        ELSE IF Len(all) = 1 THEN all[1]
        ELSE [k |-> "prod", v |-> 1, n |-> <<>>, t |-> WidestTag(all), a |-> all,
              b |-> <<>>, o |-> 0]

\* create_sum: nested sums are flattened, the literal addends are folded and
\* a literal 0.0 is dropped; nothing left is 0.0.
CreateSum(variables) ==
    LET flat == FlattenKind("sum", variables)
        c    == FloatSum(flat)
        rest == SelectSeq(flat, IsNotFloat)
        all  == IF c = 0 THEN rest ELSE rest \o <<CreateFloat(c)>>
    IN  IF all = <<>> THEN CreateFloat(0)
        ELSE IF Len(all) = 1 THEN all[1]
        ELSE [k |-> "sum", v |-> 1, n |-> <<>>, t |-> WidestTag(all), a |-> all,
              b |-> <<>>, o |-> 0]

\* create_fraction: the denominator must be one scalar value.
FractionFails(num, den) == den.k \in {"sum", "frac"} /\ Len(den.a) > 1

CreateFraction(num, den) ==
    [k |-> "frac", v |-> 1, n |-> <<>>, t |-> WidestTag(<<num, den>>), a |-> <<num, den>>,
     b |-> <<>>, o |-> 0]

(***************************************************************************)
(* Results of a call: a value, or the exception that ended it.             *)
(***************************************************************************)
Ok(x) == [err |-> "none", val |-> x]
Fail(e) == [err |-> e, val |-> NoValue]

(***************************************************************************)
(* Index-keyed code maps.  A key is a tuple of index assignments; the      *)
(* assignments are numbered in the order Python sorts them in.             *)
(***************************************************************************)
Keys == {<<>>, <<1>>, <<2>>}

\* The operand maps the handlers are tried on: every set of keys, with
\* values that tell the operand and the key apart.
OperandMap(id, S) ==
    [k \in S |-> CreateSymbol(<<id, ToString(k)>>, IF k = <<>> THEN "GEO" ELSE "BASIS")]

OperandMaps == {OperandMap(id, S) : id \in {"a", "b"}, S \in SUBSET Keys}

RECURSIVE SeqsUpTo(_, _)
SeqsUpTo(S, n) ==
    IF n = 0 THEN {<<>>}
    ELSE LET shorter == SeqsUpTo(S, n - 1)
         IN  shorter \cup {Append(s, x) : s \in {t \in shorter : Len(t) = n - 1}, x \in S}

OperandLists == SeqsUpTo(OperandMaps, MaxOperands)

\* The values of the operands that hold key, in operand order.
RECURSIVE ValuesAt(_, _)
ValuesAt(operands, key) ==
    IF operands = <<>> THEN <<>>
    ELSE (IF key \in DOMAIN Head(operands) THEN <<Head(operands)[key]>> ELSE <<>>)
         \o ValuesAt(Tail(operands), key)

RECURSIVE UnionOfKeys(_)
UnionOfKeys(operands) ==
    IF operands = <<>> THEN {}
    ELSE (DOMAIN Head(operands)) \cup UnionOfKeys(Tail(operands))

(***************************************************************************)
(* QuadratureTransformerOpt.sum                                            *)
(***************************************************************************)
\* Mutant of Sum: a later value of a key replaces the earlier ones.
SumKeepsLast(operands) ==
    LET code == [key \in UnionOfKeys(operands) |-> ValuesAt(operands, key)]
    IN  Ok([key \in DOMAIN code |-> code[key][Len(code[key])]])

Sum(operands) ==
    LET code == [key \in UnionOfKeys(operands) |-> ValuesAt(operands, key)]
    IN  Ok([key \in DOMAIN code |->
              IF Len(code[key]) > 1 THEN CreateSum(code[key]) ELSE code[key][1]])

(***************************************************************************)
(* quadraturegenerator_utils.create_permutations: one item per choice of a *)
(* key in every map, <<the chosen keys joined, the chosen values, the      *)
(* chosen keys>>.                                                          *)
(***************************************************************************)
RECURSIVE CreatePermutations(_)
CreatePermutations(maps) ==
    IF maps = <<>> THEN {}
    ELSE IF Len(maps) = 1
    THEN {<<key, <<maps[1][key]>>, <<key>>>> : key \in DOMAIN maps[1]}
    ELSE LET rest == CreatePermutations(Tail(maps))
         IN  {<<key \o r[1], <<maps[1][key]>> \o r[2], <<key>> \o r[3]>> :
                 key \in DOMAIN maps[1], r \in rest}

\* list.sort() of a key.
RECURSIVE Insert(_, _)
Insert(x, s) ==
    IF s = <<>> THEN <<x>>
    ELSE IF x <= Head(s) THEN <<x>> \o s
    ELSE <<Head(s)>> \o Insert(x, Tail(s))

RECURSIVE SortKey(_)
SortKey(key) == IF key = <<>> THEN <<>> ELSE Insert(Head(key), SortKey(Tail(key)))

(***************************************************************************)
(* QuadratureTransformerOpt.product                                        *)
(***************************************************************************)
NeedsPermutation(m) ==
    Cardinality(DOMAIN m) > 1 \/ (DOMAIN m # {} /\ DOMAIN m # {<<>>})

IsScalarMap(m) == DOMAIN m = {<<>>}

RECURSIVE ScalarValues(_)
ScalarValues(operands) ==
    IF operands = <<>> THEN <<>>
    ELSE (IF IsScalarMap(Head(operands)) THEN <<Head(operands)[<<>>]>> ELSE <<>>)
         \o ScalarValues(Tail(operands))

\* Mutant of Product: the scalar factors are left out of the indexed entries.
ProductDropsScalars(operands) ==
    LET permute      == SelectSeq(operands, NeedsPermutation)
        not_permute  == ScalarValues(operands)
        permutations == CreatePermutations(permute)
    IN  IF permutations # {}
        THEN IF \E p, q \in permutations : p # q /\ SortKey(p[1]) = SortKey(q[1])
             THEN Fail("error")
             ELSE Ok([key \in {SortKey(p[1]) : p \in permutations} |->
                        CreateProduct(
                            (CHOOSE p \in permutations : SortKey(p[1]) = key)[2])])
        ELSE Ok(<<>> :> CreateProduct(not_permute))

\* Mutant of Product: an entry whose sorted key is already in the code is
\* stored over it, with no error.
ProductOverwrites(operands) ==
    LET permute      == SelectSeq(operands, NeedsPermutation)
        not_permute  == ScalarValues(operands)
        permutations == CreatePermutations(permute)
    IN  IF permutations # {}
        THEN Ok([key \in {SortKey(p[1]) : p \in permutations} |->
                   CreateProduct(
                       (CHOOSE p \in permutations : SortKey(p[1]) = key)[2]
                       \o not_permute)])
        ELSE Ok(<<>> :> CreateProduct(not_permute))

\* Mutant of Product: the combined keys are stored as they are, unsorted.
ProductUnsorted(operands) ==
    LET permute      == SelectSeq(operands, NeedsPermutation)
        not_permute  == ScalarValues(operands)
        permutations == CreatePermutations(permute)
    IN  IF permutations # {}
        THEN IF \E p, q \in permutations : p # q /\ p[1] = q[1]
             THEN Fail("error")
             ELSE Ok([key \in {p[1] : p \in permutations} |->
                        CreateProduct(
                            (CHOOSE p \in permutations : p[1] = key)[2]
                            \o not_permute)])
        ELSE Ok(<<>> :> CreateProduct(not_permute))

Product(operands) ==
    LET permute      == SelectSeq(operands, NeedsPermutation)
        not_permute  == ScalarValues(operands)
        permutations == CreatePermutations(permute)
    IN  IF permutations # {}
        THEN IF \E p, q \in permutations : p # q /\ SortKey(p[1]) = SortKey(q[1])
             THEN Fail("error")
             ELSE Ok([key \in {SortKey(p[1]) : p \in permutations} |->
                        CreateProduct(
                            (CHOOSE p \in permutations : SortKey(p[1]) = key)[2]
                            \o not_permute)])
        ELSE Ok(<<>> :> CreateProduct(not_permute))

(***************************************************************************)
(* QuadratureTransformerOpt.division                                       *)
(***************************************************************************)
\* A division that divides the denominator by the numerator's values.
DivisionInverted(operands) ==
    IF Len(operands) # 2 \/ <<>> \notin DOMAIN operands[2] THEN Fail("error")
    ELSE Ok([key \in DOMAIN operands[1] |->
               CreateFraction(operands[2][<<>>], operands[1][key])])

Division(operands) ==
    IF Len(operands) # 2 THEN Fail("error")
    ELSE LET numerator_code   == operands[1]
             denominator_code == operands[2]
         IN  IF <<>> \notin DOMAIN denominator_code
                /\ Cardinality(DOMAIN denominator_code) # 1
             THEN Fail("error")
             ELSE IF <<>> \notin DOMAIN denominator_code THEN Fail("KeyError")
             ELSE IF \E key \in DOMAIN numerator_code :
                        FractionFails(numerator_code[key], denominator_code[<<>>])
             THEN Fail("error")
             ELSE Ok([key \in DOMAIN numerator_code |->
                        CreateFraction(numerator_code[key], denominator_code[<<>>])])

(***************************************************************************)
(* The format dictionary handed to the transformer: every entry gives the  *)
(* pieces of the text it formats.                                          *)
(***************************************************************************)
FirstFreeIndex == "j"
SecondFreeIndex == "k"

FormatTransform(type, j, k, r) == <<type, "_", ToString(j), ToString(k), r>>
FormatDeterminant(r) == <<"detJ", r>>
FormatMatrixAccess(a, b) == <<"[", a, "]", "[", b, "]">>

AFFINE == "affine"
COVARIANT_PIOLA == "covariant piola"
CONTRAVARIANT_PIOLA == "contravariant piola"
Transformations == {AFFINE, COVARIANT_PIOLA, CONTRAVARIANT_PIOLA, "unknown"}

(***************************************************************************)
(* The tables of the element (self.name_map and self.unique_tables), one   *)
(* per component: component 0 has an all-zero table, component 1 a table   *)
(* of ones with one column (column 2 of the element), component 2 a full   *)
(* table whose derivatives that take no direction 0 are all zero, and      *)
(* component 3 a table with the nonzero columns 0 and 2.                   *)
(***************************************************************************)
HasTable(component) == component \in 0..3

\* generate_psi_name(element_counter, facet, component, deriv)
GeneratePsiName(facet, component, deriv) ==
    <<"FE0", facet, "_C", ToString(component), "_D">> \o [i \in 1..Len(deriv) |-> ToString(deriv[i])]

\* name, non_zeros, zeros, ones = self.name_map[name] and
\* shape(self.unique_tables[name])[1]
NameMap(name, component, deriv) ==
    [name      |-> name,
     non_zeros |-> CASE component = 1 -> <<1, <<2>>>>
                     [] component = 3 -> <<0, <<0, 2>>>>
                     [] OTHER -> <<>>,
     zeros     |-> component = 0 \/ (component = 2 /\ deriv # <<>> /\ deriv[1] = 0),
     ones      |-> component = 1,
     range     |-> CASE component = 1 -> 1
                     [] component = 3 -> 2
                     [] OTHER -> SpaceDimension]

\* deriv = [multi.count(i) for i in range(self.geo_dim)], [] when all are 0.
DerivOf(multi) ==
    LET deriv == [i \in 1..GeoDim |-> Cardinality({p \in 1..Len(multi) : multi[p] = i - 1})]
    IN  IF \A i \in 1..GeoDim : deriv[i] = 0 THEN <<>> ELSE deriv

\* dict[key] = value
Put(dict, key, value) ==
    [x \in (DOMAIN dict) \cup {key} |-> IF x = key THEN value ELSE dict[x]]

\* An offset for both restricted sides.
RestrictionOffsetBothSides(r) ==
    IF r \in {"+", "-"} THEN <<ToString(SpaceDimension)>> ELSE <<>>

\* offset = {"+": "", "-": str(space_dim), None: ""}[self.restriction]
RestrictionOffset(r) == IF r = "-" THEN <<ToString(SpaceDimension)>> ELSE <<>>

\* A dictionary that takes the slot by its sign only.
IndicesBySign(count) == IF count < 0 THEN FirstFreeIndex ELSE SecondFreeIndex

\* indices = {-2: first free index, -1: second free index, 0: first free
\* index, 1: second free index}
Indices(count) == IF count \in {-2, 0} THEN FirstFreeIndex ELSE SecondFreeIndex

\* A test of the zeros flag that reads one of the two options only.
SkipsZeroTableOneOption(zeros) == zeros /\ optimise_options["ignore zero tables"]

\* zeros and (optimise_options["ignore zero tables"] or
\* optimise_options["remove zero terms"])
SkipsZeroTable(zeros) ==
    zeros /\ (optimise_options["ignore zero tables"] \/ optimise_options["remove zero terms"])

\* A test of the ones flag that reads the option of the zero tables.
CollapsesOnesWrongOption(range, ones) ==
    optimise_options["ignore zero tables"] /\ range = 1 /\ ones

\* optimise_options["ignore ones"] and loop_index_range == 1 and ones
CollapsesOnes(range, ones) == optimise_options["ignore ones"] /\ range = 1 /\ ones

(***************************************************************************)
(* QuadratureTransformerOpt.__create_mapping_basis, with psi the           *)
(* psi_tables_map it starts from.                                          *)
(***************************************************************************)
CreateMappingBasis(component, deriv, count, psi) ==
    IF count \notin {-2, -1, 0, 1}
    THEN [err |-> "error", mapping |-> <<>>, basis |-> CreateFloat(0), psi |-> psi]
    ELSE IF ~HasTable(component)
    THEN [err |-> "KeyError", mapping |-> <<>>, basis |-> CreateFloat(0), psi |-> psi]
    ELSE
    LET facet        == IF restriction = "-" THEN "facet1" ELSE "facet0"
        first_index  == Indices(count)
        format_ip    == IF points = 1 THEN "0" ELSE "ip"
        basis_access == FormatMatrixAccess(format_ip, first_index)
        offset       == RestrictionOffset(restriction)
        space_dim    == IF restriction \in {"+", "-"} THEN 2 * SpaceDimension
                        ELSE SpaceDimension
        table        == NameMap(GeneratePsiName(facet, component, deriv), component, deriv)
        is_zero      == SkipsZeroTable(table.zeros)
        is_one       == ~is_zero /\ CollapsesOnes(table.range, table.ones)
        basis        == IF is_zero THEN CreateFloat(0)
                        ELSE IF is_one THEN CreateFloat(1)
                        ELSE CreateSymbol(table.name \o basis_access, "BASIS")
        loop_index   == IF is_one THEN "0" ELSE first_index
        new_psi      == IF is_zero \/ is_one THEN psi ELSE Put(psi, basis, table.name)
        \* eval(basis_map) succeeds when the map holds numbers only
        number       == (IF table.non_zeros # <<>> THEN table.non_zeros[2][1] ELSE 0)
                        + (IF offset # <<>> THEN SpaceDimension ELSE 0)
        plain        == IF table.non_zeros # <<>>
                        THEN <<"nz", ToString(table.non_zeros[1]), "[", loop_index, "]">>
                        ELSE <<loop_index>>
        basis_map    == IF loop_index = "0" THEN <<ToString(number)>>
                        ELSE IF offset # <<>> THEN <<"(">> \o plain \o <<" + ">> \o offset \o <<")">>
                        ELSE plain
    IN  [err     |-> "none",
         mapping |-> <<<<count, basis_map, table.range, space_dim>>>>,
         basis   |-> basis,
         psi     |-> new_psi]

\* A transform that puts the value before the symbols of the chain rule.
ApplyTransformValueFirst(function, derivatives, multi) ==
    CreateProduct(<<function>> \o
                  [i \in 1..Len(derivatives) |->
                      CreateSymbol(FormatTransform("JINV", multi[i], derivatives[i],
                                                   restriction), "GEO")])

(***************************************************************************)
(* QuadratureTransformerOpt.__apply_transform                              *)
(***************************************************************************)
ApplyTransform(function, derivatives, multi) ==
    LET transforms == [i \in 1..Len(derivatives) |->
                          CreateSymbol(FormatTransform("JINV", multi[i], derivatives[i],
                                                       restriction), "GEO")]
    IN  CreateProduct(Append(transforms, function))

\* Piola factors that take the entry (local_comp, c) of the Jacobians.
PiolaFactorsTransposed(transformation, c, local_comp) ==
    IF transformation = COVARIANT_PIOLA
    THEN <<CreateSymbol(FormatTransform("JINV", local_comp, c, restriction), "GEO")>>
    ELSE <<CreateFraction(CreateFloat(1), CreateSymbol(FormatDeterminant(restriction), "GEO")),
           CreateSymbol(FormatTransform("J", local_comp, c, restriction), "GEO")>>

\* The Piola factors of create_basis_function and create_function.
PiolaFactors(transformation, c, local_comp) ==
    IF transformation = COVARIANT_PIOLA
    THEN <<CreateSymbol(FormatTransform("JINV", c, local_comp, restriction), "GEO")>>
    ELSE <<CreateFraction(CreateFloat(1), CreateSymbol(FormatDeterminant(restriction), "GEO")),
           CreateSymbol(FormatTransform("J", c, local_comp, restriction), "GEO")>>

\* The passes of the loops over multiindices (and over range(self.geo_dim)
\* for a mapping that is not affine), in order: <<multi, c>>.
RECURSIVE LoopPasses(_, _)
LoopPasses(transformation, multiindices) ==
    IF multiindices = <<>> THEN <<>>
    ELSE (IF transformation = AFFINE THEN <<<<Head(multiindices), 0>>>>
          ELSE [c \in 1..GeoDim |-> <<Head(multiindices), c - 1>>])
         \o LoopPasses(transformation, Tail(multiindices))

\* The sums of the lists of a dict of lists of terms.
GroupTerms(pairs) ==
    [mapping \in {pairs[i][1] : i \in 1..Len(pairs)} |->
        LET at  == SelectSeq(pairs, LAMBDA pr : pr[1] = mapping)
            val == [i \in 1..Len(at) |-> at[i][2]]
        IN  IF Len(val) > 1 THEN CreateSum(val) ELSE val[1]]

(***************************************************************************)
(* QuadratureTransformerOpt.create_basis_function.  a holds the arguments: *)
(* derivatives, component, local_comp, local_offset, transformation,       *)
(* multiindices and count, the slot of ufl_basis_function.                 *)
(***************************************************************************)
\* One pass of the loops of create_basis_function: the mapping and the term
\* it appends, and the psi_tables_map it leaves.
BasisFunctionPass(a, pass, psi) ==
    LET multi     == pass[1]
        c         == pass[2]
        component == IF a.transformation = AFFINE THEN a.component ELSE c + a.local_offset
    IN  CHOOSE out \in
          {IF mb.err # "none" THEN [err |-> mb.err, psi |-> mb.psi, pair |-> <<>>]
           ELSE IF a.transformation \notin {AFFINE, COVARIANT_PIOLA, CONTRAVARIANT_PIOLA}
           THEN [err |-> "error", psi |-> mb.psi, pair |-> <<>>]
           ELSE LET basis == IF a.transformation = AFFINE THEN mb.basis
                             ELSE CreateProduct(
                                      Append(PiolaFactors(a.transformation, c, a.local_comp),
                                             mb.basis))
                IN  [err  |-> "none", psi |-> mb.psi,
                     pair |-> <<mb.mapping, ApplyTransform(basis, a.derivatives, multi)>>]
             : mb \in {CreateMappingBasis(component, DerivOf(multi), a.count, psi)}} : TRUE

RECURSIVE BasisFunctionTerms(_, _, _, _)
BasisFunctionTerms(a, passes, psi, acc) ==
    IF passes = <<>> THEN [err |-> "none", terms |-> acc, psi |-> psi]
    ELSE CHOOSE out \in
           {IF p.err # "none" THEN [err |-> p.err, terms |-> acc, psi |-> p.psi]
            ELSE BasisFunctionTerms(a, Tail(passes), p.psi, Append(acc, p.pair))
              : p \in {BasisFunctionPass(a, Head(passes), psi)}} : TRUE

CreateBasisFunction(a, psi) ==
    CHOOSE out \in
      {[err   |-> r.err,
        terms |-> r.terms,
        psi   |-> r.psi,
        val   |-> IF r.err = "none" THEN GroupTerms(r.terms) ELSE NoValue]
         : r \in {BasisFunctionTerms(a, LoopPasses(a.transformation, a.multiindices),
                                     psi, <<>>)}} : TRUE

(***************************************************************************)
(* QuadratureTransformerBase._create_function_name: the name of the value  *)
(* of a coefficient at the integration point, or None for a component      *)
(* whose table is all zero and left out.                                   *)
(***************************************************************************)
CreateFunctionName(component, deriv) ==
    LET table == NameMap(GeneratePsiName("facet0", component, deriv), component, deriv)
    IN  [none |-> table.zeros /\ (optimise_options["ignore zero tables"]
                                    \/ optimise_options["remove zero terms"]),
         expr |-> CreateSymbol(<<"F", ToString(component), "_D">>
                               \o [i \in 1..Len(deriv) |-> ToString(deriv[i])]
                               \o <<restriction>>, "IP")]

(***************************************************************************)
(* QuadratureTransformerOpt.create_function                                *)
(***************************************************************************)
RECURSIVE FunctionTerms(_, _, _)
FunctionTerms(a, passes, acc) ==
    IF passes = <<>> THEN [err |-> "none", terms |-> acc]
    ELSE
    LET multi         == Head(passes)[1]
        c             == Head(passes)[2]
        component     == IF a.transformation = AFFINE THEN a.component ELSE c + a.local_offset
        function_name == CreateFunctionName(component, DerivOf(multi))
    IN  IF a.transformation = AFFINE
        THEN IF function_name.none THEN FunctionTerms(a, Tail(passes), acc)
             ELSE FunctionTerms(a, Tail(passes),
                      Append(acc, ApplyTransform(function_name.expr, a.derivatives, multi)))
        ELSE IF a.transformation \notin {COVARIANT_PIOLA, CONTRAVARIANT_PIOLA}
        THEN [err |-> "error", terms |-> acc]
        \* create_product of a list that holds None
        ELSE IF function_name.none THEN [err |-> "AttributeError", terms |-> acc]
        ELSE FunctionTerms(a, Tail(passes),
                 Append(acc, ApplyTransform(
                     CreateProduct(Append(PiolaFactors(a.transformation, c, a.local_comp),
                                          function_name.expr)),
                     a.derivatives, multi)))

CreateFunction(a) ==
    LET r == FunctionTerms(a, LoopPasses(a.transformation, a.multiindices), <<>>)
    IN  [err   |-> r.err,
         terms |-> r.terms,
         val   |-> IF r.err # "none" THEN NoValue
                   ELSE IF r.terms = <<>> THEN CreateFloat(0)
                   ELSE IF Len(r.terms) > 1 THEN CreateSum(r.terms)
                   ELSE r.terms[1]]

(***************************************************************************)
(* symbolics.optimise_code: the factors of a product that do not vary with *)
(* the basis index are hoisted, the IP ones into ip_consts and the GEO     *)
(* ones into geo_consts, and replaced by the name generated for them.      *)
(***************************************************************************)
RECURSIVE Render(_)
RECURSIVE RenderAll(_, _)
RenderAll(s, sep) ==
    IF s = <<>> THEN <<>>
    ELSE IF Len(s) = 1 THEN Render(s[1])
    ELSE Render(s[1]) \o <<sep>> \o RenderAll(Tail(s), sep)

\* The text of an expression, in pieces.
Render(e) ==
    CASE e.k = "float" -> <<ToString(e.v)>>
      [] e.k = "sym"   -> e.n
      [] e.k = "prod"  -> RenderAll(e.a, "*")
      [] e.k = "sum"   -> <<"(">> \o RenderAll(e.a, " + ") \o <<")">>
      [] OTHER         -> RenderAll(e.a, "/")

HasTagBASIS(e) == e.t = "BASIS"
HasTagIP(e) == e.t = "IP"
HasTagGEO(e) == e.t = "GEO"

IsCompound(factors) ==
    Len(factors) > 1 \/ (Len(factors) = 1 /\ factors[1].k \notin {"sym", "float"})

Hoisted(factors, prefix, tag) ==
    IF IsCompound(factors)
    THEN <<CreateSymbol(<<prefix, "[">> \o Render(CreateProduct(factors)) \o <<"]">>, tag)>>
    ELSE factors

OptimiseCode(expr) ==
    IF expr.k \in {"float", "sym"} THEN [expr |-> expr, ip |-> {}, geo |-> {}]
    ELSE
    LET factors == IF expr.k = "prod" THEN expr.a ELSE <<expr>>
        const   == SelectSeq(factors, IsFloat)
        basis   == SelectSeq(factors, HasTagBASIS)
        ip      == SelectSeq(factors, HasTagIP)
        geo     == SelectSeq(factors, HasTagGEO)
    IN  [expr |-> CreateProduct(const \o basis \o Hoisted(ip, "I", "IP")
                                \o Hoisted(geo, "G", "GEO")),
         ip   |-> IF IsCompound(ip) THEN {CreateProduct(ip)} ELSE {},
         geo  |-> IF IsCompound(geo) THEN {CreateProduct(geo)} ELSE {}]

\* expr.get_unique_vars(tag): the symbols of expr with the tag.
RECURSIVE GetUniqueVars(_, _)
GetUniqueVars(e, tag) ==
    IF e.k = "sym" THEN (IF e.t = tag THEN {e} ELSE {})
    ELSE UNION {GetUniqueVars(e.a[i], tag) : i \in 1..Len(e.a)}

\* An entry builder that returns the product as it is.
CreateEntryValueUnoptimised(val, weight, scale_factor) ==
    LET value == CreateProduct(<<val, weight, CreateSymbol(scale_factor, "GEO")>>)
    IN  [err |-> "none", value |-> value, zero |-> value.v = 0,
         used |-> used_psi_tables \cup
                    {psi_tables_map[b] : b \in GetUniqueVars(value, "BASIS")
                                                 \cap DOMAIN psi_tables_map},
         ip |-> {}, geo |-> {}]

\* An entry builder that leaves used_psi_tables as it finds it.
CreateEntryValueForgetsTables(val, weight, scale_factor) ==
    LET optimised == OptimiseCode(
                         CreateProduct(<<val, weight, CreateSymbol(scale_factor, "GEO")>>))
    IN  [err |-> "none", value |-> optimised.expr, zero |-> optimised.expr.v = 0,
         used |-> used_psi_tables, ip |-> optimised.ip, geo |-> optimised.geo]

(***************************************************************************)
(* QuadratureTransformerOpt._create_entry_value                            *)
(***************************************************************************)
CreateEntryValue(val, weight, scale_factor) ==
    LET optimised == OptimiseCode(
                         CreateProduct(<<val, weight, CreateSymbol(scale_factor, "GEO")>>))
        value     == optimised.expr
        basis     == GetUniqueVars(value, "BASIS")
    IN  IF value.v = 0
        THEN [err |-> "none", value |-> value, zero |-> TRUE, used |-> used_psi_tables,
              ip |-> optimised.ip, geo |-> optimised.geo]
        ELSE IF \E b \in basis : b \notin DOMAIN psi_tables_map
        THEN [err |-> "KeyError", value |-> value, zero |-> FALSE, used |-> used_psi_tables,
              ip |-> optimised.ip, geo |-> optimised.geo]
        ELSE [err |-> "none", value |-> value, zero |-> FALSE,
              used |-> used_psi_tables \cup {psi_tables_map[b] : b \in basis},
              ip |-> optimised.ip, geo |-> optimised.geo]

(***************************************************************************)
(* QuadratureTransformerOpt.abs, _math_function and power.  The format     *)
(* dictionary gives the text of the calls.                                 *)
(***************************************************************************)
FormatAbsoluteValue(text) == <<"std::abs", "(">> \o text \o <<")">>
FormatMathFunction(text) == <<"std::sin", "(">> \o text \o <<")">>
FormatStdPower(base, exp) == <<"std::pow", "(">> \o base \o <<", ">> \o exp \o <<")">>
FormatFloatingPoint(x) == <<ToString(x)>>

\* A wrapping that tags the symbol GEO whatever the value it wraps.
WrapValueTaggedGEO(name, val) ==
    [k |-> "sym", v |-> 1, n |-> name, t |-> "GEO", a |-> <<>>, b |-> <<val>>, o |-> 1]

\* sym = create_symbol(name, val.t); sym.base_expr = val; sym.base_op = 1
WrapValue(name, val) ==
    [k |-> "sym", v |-> 1, n |-> name, t |-> val.t, a |-> <<>>, b |-> <<val>>, o |-> 1]

\* The safety check of abs and of _math_function: it reads operands[0], and
\* so fails on an empty tuple of operands.
WrapGuard(operands) ==
    IF Len(operands) = 1 THEN "none"
    ELSE IF operands = <<>> THEN "IndexError"
    ELSE IF <<>> \in DOMAIN operands[1] THEN "none"
    ELSE IF Cardinality(DOMAIN operands[1]) # 1 THEN "error"
    ELSE "none"

\* abs: the result, and the operands as the call leaves them.
Abs(operands) ==
    IF WrapGuard(operands) # "none"
    THEN [err |-> WrapGuard(operands), val |-> NoValue, operands |-> operands]
    ELSE IF <<>> \notin DOMAIN operands[1]
    THEN [err |-> "KeyError", val |-> NoValue, operands |-> operands]
    ELSE [err |-> "none",
          val |-> <<>> :> WrapValue(FormatAbsoluteValue(Render(operands[1][<<>>])),
                                    operands[1][<<>>]),
          operands |-> operands]

\* _math_function: every value of operands[0] is replaced, in that map, by
\* the symbol of the call, and that map is returned.
MathFunction(operands) ==
    IF WrapGuard(operands) # "none"
    THEN [err |-> WrapGuard(operands), val |-> NoValue, operands |-> operands]
    ELSE LET operand == [key \in DOMAIN operands[1] |->
                            WrapValue(FormatMathFunction(Render(operands[1][key])),
                                      operands[1][key])]
         IN  [err |-> "none", val |-> operand,
              operands |-> [operands EXCEPT ![1] = operand]]

\* The exponents of a Power node: IntValue, FloatValue, a Function, and a
\* node of another class.
Exponents ==
    {<<"IntValue", n>> : n \in (0 - 1)..MaxExponent}
        \cup {<<"FloatValue", 2>>, <<"Function", 0>>, <<"Other", 0>>}

\* A power that multiplies one copy of the base too many.
PowerOneMore(base_code, e) ==
    IF <<>> \notin DOMAIN base_code \/ e[1] # "IntValue" THEN Fail("error")
    ELSE Ok(<<>> :> CreateProduct([i \in 1..(e[2] + 1) |-> base_code[<<>>]]))

\* power, with base_code what the visit of the base returned.
Power(base_code, e) ==
    IF <<>> \notin DOMAIN base_code /\ Cardinality(DOMAIN base_code) # 1
    THEN Fail("error")
    ELSE IF <<>> \notin DOMAIN base_code THEN Fail("KeyError")
    ELSE LET val == base_code[<<>>]
         IN  CASE e[1] = "IntValue" ->
                    Ok(<<>> :> CreateProduct([i \in 1..e[2] |-> val]))
               [] e[1] = "FloatValue" ->
                    Ok(<<>> :> WrapValue(FormatStdPower(Render(val),
                                                        FormatFloatingPoint(e[2])), val))
               [] e[1] = "Function" ->
                    Ok(<<>> :> WrapValue(FormatStdPower(Render(val), <<"w", ToString(e[2])>>),
                                         val))
               [] OTHER -> Fail("error")

(***************************************************************************)
(* The state machine.                                                      *)
(***************************************************************************)
\* The slot counts tried: the four of the test and trial functions, and one
\* that is none of them.
Counts == {-2, -1, 0, 1, 2}

\* The derivative directions of a terminal, and the lists of multi-indices
\* tried with them: none, and all of them.
DerivativeLists == {<<>>, <<1>>}

AllMultiIndices(n) ==
    IF n = 0 THEN <<<<>>>>
    ELSE [i \in 1..GeoDim |-> <<i - 1>>]

MultiIndexLists(derivatives) == {<<>>, AllMultiIndices(Len(derivatives))}

\* The pairs <<local_comp, local_offset>> tried: the component is their sum.
CompOffsets == {<<0, 0>>, <<0, 1>>, <<1, 1>>, <<1, 2>>, <<1, 3>>}

\* The arguments create_basis_function and create_function are called with.
TerminalArguments ==
    {[derivatives |-> d, component |-> co[1] + co[2], local_comp |-> co[1],
      local_offset |-> co[2], transformation |-> t, multiindices |-> m, count |-> n] :
        d \in DerivativeLists, co \in CompOffsets, t \in Transformations,
        m \in MultiIndexLists(<<>>) \cup MultiIndexLists(<<1>>), n \in Counts}

\* The terminals visited: one with derivatives comes with its multi-indices.
Visited(a) ==
    /\ a.multiindices \in MultiIndexLists(a.derivatives)
    /\ a.derivatives # <<>> => a.multiindices # <<>>

\* The reference components a visit of the terminal reads.
ComponentsOf(a) ==
    IF a.transformation = AFFINE THEN {a.component}
    ELSE {c + a.local_offset : c \in 0..(GeoDim - 1)}

OptionNames == {"ignore zero tables", "remove zero terms", "ignore ones"}

Init ==
    /\ op = "init"
    /\ args = <<>>
    /\ ret = NoValue
    /\ err = "none"
    /\ terms = <<>>
    /\ node_code = <<>>
    /\ calls = 0
    /\ terminal \in {a \in TerminalArguments : Visited(a)}
    /\ expo = <<>>
    /\ optimise_options \in [OptionNames -> BOOLEAN]
    /\ restriction \in {"+", "-", "None"}
    /\ points \in {1, 2}
    /\ psi_tables_map = <<>>
    /\ used_psi_tables = {}
    /\ ip_consts = {}
    /\ geo_consts = {}
    /\ NoDriver

\* A handler called on the operand maps in args.
Handler(name, result) ==
    /\ op' = name
    /\ ret' = result.val
    /\ err' = result.err
    /\ UNCHANGED <<args, terms, node_code, calls, terminal, expo, self, driver>>

SumCall == Handler("sum", Sum(args))

ProductCall == Handler("product", Product(args))

DivisionCall == Handler("division", Division(args))

NextAlgebra == SumCall \/ ProductCall \/ DivisionCall

\* The handlers are functions of their operands: the operands are drawn
\* here and the handlers applied to them.
InitAlgebra ==
    /\ op = "init"
    /\ args \in OperandLists
    /\ ret = NoValue
    /\ err = "none"
    /\ terms = <<>>
    /\ node_code = <<>>
    /\ calls = 0
    /\ terminal = <<>>
    /\ expo = <<>>
    /\ optimise_options = [o \in OptionNames |-> TRUE]
    /\ restriction = "None"
    /\ points = 1
    /\ psi_tables_map = <<>>
    /\ used_psi_tables = {}
    /\ ip_consts = {}
    /\ geo_consts = {}
    /\ NoDriver

SpecAlgebra == InitAlgebra /\ [][NextAlgebra]_vars

(***************************************************************************)
(* abs, a math function and power, called on what the visits of their      *)
(* operands returned, next to the other handlers.                          *)
(***************************************************************************)
AbsCall ==
    \E r \in {Abs(args)} :
        /\ op' = "abs"
        /\ ret' = r.val
        /\ err' = r.err
        /\ args' = r.operands
        /\ UNCHANGED <<terms, node_code, calls, terminal, expo, self, driver>>

\* A math function changes its operand: the calls are counted.
MathFunctionCall ==
    /\ calls < MaxCalls
    /\ \E r \in {MathFunction(args)} :
          /\ op' = "math_function"
          /\ ret' = r.val
          /\ err' = r.err
          /\ args' = r.operands
    /\ calls' = calls + 1
    /\ UNCHANGED <<terms, node_code, terminal, expo, self, driver>>

\* power visits the base of its node itself.
PowerCall ==
    /\ Len(args) = 1
    /\ Handler("power", Power(args[1], expo))

NextWrap == NextAlgebra \/ AbsCall \/ MathFunctionCall \/ PowerCall

InitWrap ==
    /\ op = "init"
    /\ args \in SeqsUpTo(OperandMaps, MaxWrapped)
    /\ ret = NoValue
    /\ err = "none"
    /\ terms = <<>>
    /\ node_code = <<>>
    /\ calls = 0
    /\ terminal = <<>>
    /\ expo \in Exponents
    /\ optimise_options = [o \in OptionNames |-> TRUE]
    /\ restriction = "None"
    /\ points = 1
    /\ psi_tables_map = <<>>
    /\ used_psi_tables = {}
    /\ ip_consts = {}
    /\ geo_consts = {}
    /\ NoDriver

SpecWrap == InitWrap /\ [][NextWrap]_vars

(***************************************************************************)
(* The visit of a terminal and the entries built from its code.            *)
(***************************************************************************)
\* The multi-index whose table a lone basis resolution reads: the last.
LastDeriv(a) ==
    IF a.multiindices = <<>> THEN <<>>
    ELSE DerivOf(a.multiindices[Len(a.multiindices)])

CreateMappingBasisCall ==
    /\ calls < MaxCalls
    /\ \E r \in {CreateMappingBasis(terminal.component, LastDeriv(terminal), terminal.count,
                                    psi_tables_map)} :
          /\ op' = "create_mapping_basis"
          /\ args' = [component |-> terminal.component, deriv |-> LastDeriv(terminal),
                      count |-> terminal.count]
          /\ ret' = IF r.err = "none" THEN <<r.mapping, r.basis>> ELSE NoValue
          /\ err' = r.err
          /\ terms' = <<>>
          /\ node_code' = IF r.err = "none" THEN r.mapping :> r.basis ELSE <<>>
          /\ psi_tables_map' = r.psi
    /\ calls' = calls + 1
    /\ UNCHANGED <<terminal, expo, optimise_options, restriction, points,
                   used_psi_tables, ip_consts, geo_consts, driver>>

CreateBasisFunctionCall ==
    /\ calls < MaxCalls
    /\ \E r \in {CreateBasisFunction(terminal, psi_tables_map)} :
          /\ op' = "create_basis_function"
          /\ args' = terminal
          /\ ret' = r.val
          /\ err' = r.err
          /\ terms' = r.terms
          /\ node_code' = IF r.err = "none" THEN r.val ELSE <<>>
          /\ psi_tables_map' = r.psi
    /\ calls' = calls + 1
    /\ UNCHANGED <<terminal, expo, optimise_options, restriction, points,
                   used_psi_tables, ip_consts, geo_consts, driver>>

\* A coefficient has no slot, and the components of its element have tables.
CreateFunctionCall ==
    /\ calls < MaxCalls
    /\ terminal.count = 0
    /\ \A component \in ComponentsOf(terminal) : HasTable(component)
    /\ \E r \in {CreateFunction(terminal)} :
          /\ op' = "create_function"
          /\ args' = terminal
          /\ ret' = r.val
          /\ err' = r.err
          /\ terms' = r.terms
          /\ node_code' = IF r.err = "none" THEN <<>> :> r.val ELSE <<>>
    /\ calls' = calls + 1
    /\ UNCHANGED <<terminal, expo, self, driver>>

\* generate_code builds one entry per value of the code of the integrand.
CreateEntryValueCall ==
    /\ \E key \in DOMAIN node_code :
          \E weight \in {CreateSymbol(<<"W", ToString(points)>>, "IP")} :
          \E r \in {CreateEntryValue(node_code[key], weight, <<"det">>)} :
              /\ op' = "create_entry_value"
              /\ args' = [val |-> node_code[key], weight |-> weight, scale_factor |-> <<"det">>]
              /\ ret' = IF r.err = "none" THEN <<r.value, r.zero>> ELSE NoValue
              /\ err' = r.err
              /\ used_psi_tables' = r.used
              /\ ip_consts' = ip_consts \cup r.ip
              /\ geo_consts' = geo_consts \cup r.geo
    /\ UNCHANGED <<terms, node_code, calls, terminal, expo, optimise_options,
                   restriction, points, psi_tables_map, driver>>

Next ==
    \/ CreateMappingBasisCall
    \/ CreateBasisFunctionCall
    \/ CreateFunctionCall
    \/ CreateEntryValueCall

Spec == Init /\ [][Next]_vars

(***************************************************************************)
(* The visit of a node above the terminal: abs, a math function or power   *)
(* applied to the code of the terminal, and the entries built from it.     *)
(***************************************************************************)
\* A wrapping node is visited once, right after the terminal below it.
WrapNodeCall(name, r) ==
    /\ op \in {"create_basis_function", "create_function"} /\ err = "none"
    /\ op' = name
    /\ args' = <<node_code>>
    /\ ret' = r.val
    /\ err' = r.err
    /\ terms' = <<>>
    /\ node_code' = IF r.err = "none" THEN r.val ELSE <<>>
    /\ UNCHANGED <<calls, terminal, expo, self, driver>>

AbsNodeCall == \E r \in {Abs(<<node_code>>)} : WrapNodeCall("abs", r)

MathFunctionNodeCall ==
    \E r \in {MathFunction(<<node_code>>)} : WrapNodeCall("math_function", r)

PowerNodeCall == \E r \in {Power(node_code, expo)} : WrapNodeCall("power", r)

NextVisit ==
    \/ CreateBasisFunctionCall
    \/ CreateFunctionCall
    \/ AbsNodeCall
    \/ MathFunctionNodeCall
    \/ PowerNodeCall
    \/ CreateEntryValueCall

\* The terminals of an affine element, below a Power node with a float
\* exponent when the node above is a Power.
InitVisit ==
    /\ op = "init"
    /\ args = <<>>
    /\ ret = NoValue
    /\ err = "none"
    /\ terms = <<>>
    /\ node_code = <<>>
    /\ calls = 0
    /\ terminal \in {a \in TerminalArguments : Visited(a) /\ a.transformation = AFFINE}
    /\ expo = <<"FloatValue", 2>>
    /\ optimise_options \in [OptionNames -> BOOLEAN]
    /\ restriction \in {"+", "-", "None"}
    /\ points \in {1, 2}
    /\ psi_tables_map = <<>>
    /\ used_psi_tables = {}
    /\ ip_consts = {}
    /\ geo_consts = {}
    /\ NoDriver

SpecVisit == InitVisit /\ [][NextVisit]_vars

(***************************************************************************)
(* compiler.py: compile, build and write.                                  *)
(***************************************************************************)
\* The sums of one list given to the compiler.
MaxSums == 2

\* ffc.common.constants.FFC_OPTIONS: the default of every option.
FFC_OPTIONS == [key \in {"blas", "no-gpl"} |-> FALSE]

\* for key in FFC_OPTIONS: if not key in options: options[key] = FFC_OPTIONS[key]
AddDefaults(opts) ==
    [key \in DOMAIN opts \cup DOMAIN FFC_OPTIONS |->
        IF key \in DOMAIN opts THEN opts[key] ELSE FFC_OPTIONS[key]]

\* A sum is told by the primary ranks of the terms of its element tensors,
\* interior and boundary, in order; None in a list of sums.
NoSum == <<0 - 1>>
SumInputs == {<<>>, <<2>>, <<1, 1>>, <<2, 1>>}

\* Forms are a list of forms, one form (list is FALSE) or None.
None == [list |-> FALSE, items |-> <<>>]

\* The form a sum is wrapped in, and the form when its format is saved.
Form(sum, name) == [sum |-> sum, name |-> name, format |-> "", rank |-> 0 - 1]
SaveFormat(form, format) == [form EXCEPT !.format = format]

\* The module of the language, "RuntimeError" for an unknown language; the
\* language "" stands for a language that is not true (None).
ChooseLanguage(lang) ==
    IF lang = "" THEN "dolfin"
    ELSE IF lang \in {"dolfin", "DOLFIN"} THEN "dolfin"
    ELSE IF lang \in {"dolfin-swig", "DOLFIN-SWIG"} THEN "dolfinswig"
    ELSE IF lang \in {"latex", "LaTeX"} THEN "latex"
    ELSE IF lang = "raw" THEN "raw"
    ELSE IF lang = "ase" THEN "ase"
    ELSE IF lang = "xml" THEN "xml"
    ELSE "RuntimeError"

\* What is printed, and the two calls into the module of the format.
PrintLine(text) == [ev |-> "print", text |-> text]
FormatInit(format, opts) == [ev |-> "init", format |-> format, options |-> opts]
FormatWrite(format, forms, opts) ==
    [ev |-> "write", format |-> format, forms |-> forms, options |-> opts]

NothingToDo == PrintLine("No forms specified, nothing to do.")

\* __check_primary_ranks reads ranks[0]: a sum without products has no
\* term, and the read raises IndexError.
CheckPrimaryRanksFails(form) == form.sum = <<>>

\* __check_primary_ranks: the body of its test of the ranks is a string, a
\* statement without effect; form.rank is the rank of the first term.
CheckPrimaryRanks(form) == [form EXCEPT !.rank = form.sum[1]]

\* The first form of the list whose check fails, 0 when there is none.
FirstFailing(forms) ==
    IF \E i \in 1..Len(forms) : CheckPrimaryRanksFails(forms[i])
    THEN CHOOSE i \in 1..Len(forms) :
            /\ CheckPrimaryRanksFails(forms[i])
            /\ \A j \in 1..(i - 1) : ~CheckPrimaryRanksFails(forms[j])
    ELSE 0

\* The lines the loop of build prints for its first n forms.
TensorLines(n) ==
    [j \in 1..(2 * n) |->
        IF j % 2 = 1 THEN PrintLine("Compiling tensor representation for interior")
        ELSE PrintLine("Compiling tensor representation for boundary")]

Build(ss, name, lang, opts) ==
    LET filled == AddDefaults(opts)
        given  == IF ss.list THEN SelectSeq(ss.items, LAMBDA sum : sum # NoSum)
                  ELSE ss.items
        forms  == [i \in 1..Len(given) |-> Form(given[i], name)]
        format == ChooseLanguage(lang)
        bad    == FirstFailing(forms)
        built  == [i \in 1..Len(forms) |->
                      SaveFormat(CheckPrimaryRanks(forms[i]), format)]
    IN  IF Len(forms) = 0
        THEN [err |-> "none", ret |-> None, options |-> filled,
              output |-> <<NothingToDo>>]
        ELSE IF format = "RuntimeError"
        THEN [err |-> "RuntimeError", ret |-> None, options |-> filled,
              output |-> <<>>]
        ELSE IF bad # 0
        THEN [err |-> "IndexError", ret |-> None, options |-> filled,
              output |-> <<FormatInit(format, filled)>> \o TensorLines(bad)]
        ELSE [err |-> "none",
              ret |-> IF Len(built) > 1 THEN [list |-> TRUE, items |-> built]
                      ELSE [list |-> FALSE, items |-> <<built[1]>>],
              options |-> filled,
              output |-> <<FormatInit(format, filled)>> \o TensorLines(Len(built))]

\* The forms build returns hold no None: the filter of the list keeps them.
Write(forms, opts) ==
    LET filled == AddDefaults(opts)
        list   == IF forms.list THEN forms.items
                  ELSE IF forms # None THEN forms.items
                  ELSE <<>>
    IN  IF Len(list) = 0
        THEN [err |-> "none", ret |-> None, options |-> filled,
              output |-> <<NothingToDo>>]
        ELSE [err |-> "none", ret |-> None, options |-> filled,
              output |-> <<FormatWrite(list[1].format, list, filled)>>]

\* A compile that generates code whatever build returned.
CompileAlwaysWrites(ss, name, lang, opts) ==
    LET filled == AddDefaults(opts)
        built  == Build(ss, name, lang, filled)
        wrote  == Write(built.ret, built.options)
    IN  IF built.err # "none" THEN built
        ELSE [err |-> wrote.err, ret |-> built.ret, options |-> wrote.options,
              output |-> built.output \o wrote.output]

Compile(ss, name, lang, opts) ==
    LET filled == AddDefaults(opts)
        built  == Build(ss, name, lang, filled)
        wrote  == Write(built.ret, built.options)
    IN  IF built.err # "none" THEN built
        ELSE IF built.ret # None
        THEN [err |-> wrote.err, ret |-> built.ret, options |-> wrote.options,
              output |-> built.output \o wrote.output]
        ELSE built

\* The name of the form: the default of the three functions.
DefaultName == "Form"

\* A call of the driver leaves the transformer alone.
DriverCall(name, arguments, result) ==
    /\ op' = name
    /\ args' = arguments
    /\ ret' = IF result.err = "none" THEN result.ret ELSE NoValue
    /\ err' = result.err
    /\ options' = result.options
    /\ output' = output \o result.output
    /\ UNCHANGED <<terms, node_code, calls, terminal, expo, self, sums, language, emitter>>

CompileCall ==
    /\ op = "init"
    /\ \E r \in {Compile(sums, DefaultName, language, options)} :
          DriverCall("compile", [sums |-> sums, name |-> DefaultName,
                                 language |-> language, options |-> options], r)

BuildCall ==
    /\ op = "init"
    /\ \E r \in {Build(sums, DefaultName, language, options)} :
          DriverCall("build", [sums |-> sums, name |-> DefaultName,
                               language |-> language, options |-> options], r)

\* write is called on what build returned.
WriteCall ==
    /\ op = "build" /\ err = "none"
    /\ \E r \in {Write(ret, options)} :
          DriverCall("write", [forms |-> ret, options |-> options], r)

NextCompile == CompileCall \/ BuildCall \/ WriteCall

Languages == {"", "dolfin", "DOLFIN", "dolfin-swig", "latex", "raw", "xml", "C++"}

SumsInputs ==
    {[list |-> FALSE, items |-> <<sum>>] : sum \in SumInputs}
    \cup {[list |-> TRUE, items |-> items] :
             items \in SeqsUpTo(SumInputs \cup {NoSum}, MaxSums)}

OptionInputs == UNION {[keys -> BOOLEAN] : keys \in SUBSET DOMAIN FFC_OPTIONS}

InitCompile ==
    /\ op = "init"
    /\ args = <<>>
    /\ ret = NoValue
    /\ err = "none"
    /\ terms = <<>>
    /\ node_code = <<>>
    /\ calls = 0
    /\ terminal = <<>>
    /\ expo = <<>>
    /\ optimise_options = [o \in OptionNames |-> TRUE]
    /\ restriction = "None"
    /\ points = 1
    /\ psi_tables_map = <<>>
    /\ used_psi_tables = {}
    /\ ip_consts = {}
    /\ geo_consts = {}
    /\ sums \in SumsInputs
    /\ language \in Languages
    /\ options \in OptionInputs
    /\ output = <<>>
    /\ NoEmitter

SpecCompile == InitCompile /\ [][NextCompile]_vars

(***************************************************************************)
(* format_code.py: format_code and the nodes Return and Conditional.  A    *)
(* text is the sequence of its lines, a line the sequence of the strings   *)
(* it is made of.                                                          *)
(***************************************************************************)
\* The levels of indentation asked for.
MaxLevel == 2

\* The code format_code takes: a str, an int, a tuple, a list or a node.
Str(text) == [k |-> "str", s |-> text, items |-> <<>>]
IntOf(n) == [k |-> "int", s |-> ToString(n), items |-> <<>>]
TupleOf(items) == [k |-> "tuple", s |-> "", items |-> items]
ListOf(items) == [k |-> "list", s |-> "", items |-> items]

\* indent(text, level): four blanks per level in front of every line.
Indent(text, lvl) ==
    IF lvl = 0 THEN text
    ELSE [i \in 1..Len(text) |-> [j \in 1..lvl |-> "    "] \o text[i]]

\* "".join(...): the last line of a text goes on in the first of the next.
JoinTwo(first, second) ==
    SubSeq(first, 1, Len(first) - 1) \o <<first[Len(first)] \o second[1]>> \o Tail(second)

RECURSIVE JoinTexts(_)
JoinTexts(texts) ==
    IF texts = <<>> THEN <<<<>>>>
    ELSE IF Len(texts) = 1 THEN texts[1]
    ELSE JoinTwo(texts[1], JoinTexts(Tail(texts)))

\* "\n".join(...)
RECURSIVE JoinLines(_)
JoinLines(texts) ==
    IF texts = <<>> THEN <<<<>>>>
    ELSE IF Len(texts) = 1 THEN texts[1]
    ELSE texts[1] \o JoinLines(Tail(texts))

\* Return.__init__ reads self.value, which the new object does not have.
ReturnInit(value) == Fail("AttributeError")

\* Conditional.__init__: the attributes condition, true and false, in order.
ConditionalInit(condition, true, false) ==
    Ok([k |-> "Conditional", s |-> "", items |-> <<condition, false, false>>])

RECURSIVE FormatCode(_, _)

\* Return.format
ReturnFormat(node, lvl) ==
    FormatCode(TupleOf(<<Str("return "), node.items[1], Str(";")>>), lvl)

\* Conditional.format
ConditionalFormat(node, lvl) ==
    FormatCode(TupleOf(<<node.items[1], Str(" ? "), node.items[2], Str(" : "),
                         node.items[3]>>), lvl)

FormatCode(given, lvl) ==
    CASE given.k = "str" -> Indent(<<<<given.s>>>>, lvl)
      [] given.k = "list" ->
            JoinLines([i \in 1..Len(given.items) |-> FormatCode(given.items[i], lvl)])
      [] given.k = "tuple" ->
            Indent(JoinTexts([i \in 1..Len(given.items) |-> FormatCode(given.items[i], 0)]),
                   lvl)
      [] given.k = "Return" -> ReturnFormat(given, lvl)
      [] given.k = "Conditional" -> ConditionalFormat(given, lvl)
      [] given.k = "int" -> Indent(<<<<given.s>>>>, lvl)

\* A call of a constructor or of format_code.
EmitterCall(name, arguments, result) ==
    /\ format_tables' = format_tables
    /\ op' = name
    /\ args' = arguments
    /\ ret' = result.val
    /\ err' = result.err
    /\ UNCHANGED <<terms, node_code, calls, terminal, expo, self, sums, language,
                   options, output, snippet, level, projections, the_form>>

ReturnCall ==
    /\ op = "init"
    /\ EmitterCall("Return", <<snippet[1]>>, ReturnInit(snippet[1]))

ConditionalCall ==
    /\ op = "init"
    /\ EmitterCall("Conditional", snippet,
                   ConditionalInit(snippet[1], snippet[2], snippet[3]))

\* format_code on code without a node.
FormatCodeCall ==
    /\ op = "init"
    /\ \E text \in {FormatCode(snippet[1], level)} :
          EmitterCall("format_code", <<snippet[1], level>>, Ok(text))

\* format_code on the node a constructor returned.
FormatNodeCall ==
    /\ op \in {"Return", "Conditional"} /\ err = "none"
    /\ \E text \in {FormatCode(ret, level)} :
          EmitterCall("format_code", <<ret, level>>, Ok(text))

NextFormat == ReturnCall \/ ConditionalCall \/ FormatCodeCall \/ FormatNodeCall

Snippets ==
    {Str("a"), Str("b"), IntOf(1),
     TupleOf(<<Str("a"), Str(" < "), IntOf(1)>>),
     ListOf(<<Str("a"), Str("b")>>)}

InitFormat ==
    /\ op = "init"
    /\ args = <<>>
    /\ ret = NoValue
    /\ err = "none"
    /\ terms = <<>>
    /\ node_code = <<>>
    /\ calls = 0
    /\ terminal = <<>>
    /\ expo = <<>>
    /\ optimise_options = [o \in OptionNames |-> TRUE]
    /\ restriction = "None"
    /\ points = 1
    /\ psi_tables_map = <<>>
    /\ used_psi_tables = {}
    /\ ip_consts = {}
    /\ geo_consts = {}
    /\ sums = <<>> /\ language = "" /\ options = <<>> /\ output = <<>>
    /\ snippet \in [1..3 -> Snippets]
    /\ level \in 0..MaxLevel
    /\ format_tables = <<>> /\ projections = <<>> /\ the_form = <<>>

SpecFormat == InitFormat /\ [][NextFormat]_vars

(***************************************************************************)
(* The back end of the old compiler: __compute_coefficients of compiler.py,*)
(* init of dolfin.py and of dolfinswig.py, and the eval bodies of          *)
(* dolfinswig.py.  A text is the sequence of its lines, a line a sequence  *)
(* of strings.                                                             *)
(***************************************************************************)
\* The columns of a projection matrix.
MaxColumns == 2

\* Numbers are counted in halves of ffc.common.constants.FFC_EPSILON: the
\* threshold is 2, and 1.0 is 1000.
FFC_EPSILON == 2
OneValue == 500 * FFC_EPSILON
AbsValue(x) == IF x < 0 THEN 0 - x ELSE x

\* abs() of a Python bool: True counts 1 and False 0.
AbsOfBool(b) == IF b THEN 1 ELSE 0

\* dolfinswig format: "coefficient", "coefficient table", "floating point",
\* "multiplication" and "sum".
FormatCoefficient(j, k) == <<"c", ToString(j), "_", ToString(k)>>
FormatCoefficientTable(j, k) == <<"c[", ToString(j), "][", ToString(k), "]">>
FormatFloat(x) == <<"%.15e", ToString(x)>>
FormatMultiplication(factors) == JoinTexts([i \in 1..Len(factors) |->
    IF i = 1 THEN <<factors[i]>> ELSE <<<<"*">> \o factors[i]>>])[1]
FormatSum(summands) == JoinTexts([i \in 1..Len(summands) |->
    IF i = 1 THEN <<summands[i]>> ELSE <<<<" + ">> \o summands[i]>>])[1]

Declaration(name, value, used) == [name |-> name, value |-> value, used |-> used]

\* The terms of a row when an entry is dropped for its small absolute value.
ProjectionTermsAsStated(n0, row) ==
    LET kept == SelectSeq([l \in 1..Len(row) |-> l],
                          LAMBDA l : ~(AbsValue(row[l]) < FFC_EPSILON))
    IN  [i \in 1..Len(kept) |->
            LET l  == kept[i]
                cl == FormatCoefficientTable(n0, l - 1)
            IN  IF AbsValue(row[l] - OneValue) < FFC_EPSILON THEN cl
                ELSE FormatMultiplication(<<FormatFloat(row[l]), cl>>)]

\* The terms of row k of P: the test of the loop is abs(P[k][l] < FFC_EPSILON),
\* the absolute value of the comparison.
ProjectionTerms(n0, row) ==
    LET kept == SelectSeq([l \in 1..Len(row) |-> l],
                          LAMBDA l : AbsOfBool(row[l] < FFC_EPSILON) = 0)
    IN  [i \in 1..Len(kept) |->
            LET l  == kept[i]
                cl == FormatCoefficientTable(n0, l - 1)
            IN  IF AbsValue(row[l] - OneValue) < FFC_EPSILON THEN cl
                ELSE FormatMultiplication(<<FormatFloat(row[l]), cl>>)]

\* The declarations of one projection (n0, n1, e0, e1, P).
DeclarationsOf(projection, cK_used) ==
    IF projection.P.none
    THEN [k \in 1..projection.spacedim |->
            Declaration(FormatCoefficient(projection.n1, k - 1),
                        FormatCoefficientTable(projection.n0, k - 1),
                        FormatCoefficient(projection.n1, k - 1) \in cK_used)]
    ELSE [k \in 1..Len(projection.P.rows) |->
            Declaration(FormatCoefficient(projection.n1, k - 1),
                        FormatSum(ProjectionTerms(projection.n0, projection.P.rows[k])),
                        FormatCoefficient(projection.n1, k - 1) \in cK_used)]

RECURSIVE ComputeCoefficients(_, _)
ComputeCoefficients(projs, cK_used) ==
    IF projs = <<>> THEN <<>>
    ELSE DeclarationsOf(Head(projs), cK_used) \o ComputeCoefficients(Tail(projs), cK_used)

\* The entries of the format dictionaries that init touches, each told by
\* the text its formatter gives; the dictionaries as the modules define them.
DolfinFormat == [reference_tensor |-> "not defined", geometry_tensor |-> "G%d_%s"]
DolfinSwigFormat == [element_tensor |-> "block[%d]"]

\* dolfin.init
DolfinInit(table, opts) ==
    IF opts["blas"]
    THEN [table EXCEPT !.reference_tensor = "(%d, %s, %s)", !.geometry_tensor = "G[%d]"]
    ELSE table

\* dolfinswig.init
DolfinSwigInit(table, opts) ==
    IF opts["blas"] THEN [table EXCEPT !.element_tensor = "None"]
    ELSE [table EXCEPT !.element_tensor = "block[%d]"]

\* The lines "    const real <name> = <value>;" of the declarations used.
RealLines(decls) ==
    LET used == SelectSeq(decls, LAMBDA d : d.used)
    IN  [i \in 1..Len(used) |-> <<"    const real ">> \o used[i].name \o <<" = ">>
                                 \o used[i].value \o <<";">>]
ZeroLines(decls) ==
    LET used == SelectSeq(decls, LAMBDA d : d.used)
    IN  [i \in 1..Len(used) |-> <<"    const real ">> \o used[i].name \o <<" = 0.0;">>]
TensorEntryLines(decls) ==
    [i \in 1..Len(decls) |-> <<"    ">> \o decls[i].name \o <<" = ">> \o decls[i].value
                              \o <<";">>]

\* The default body with the geometry tensors of one list when they are
\* computed, and of another when they are set to zero.
EvalDefault(f, opts, computed, zeroed, entries) ==
    (IF ~opts["debug-no-geometry-tensor"]
     THEN (IF Len(f.cK) > 0
           THEN <<<<"    // Compute coefficients">>>> \o RealLines(f.cK) \o <<<<>>>>
           ELSE <<>>)
          \o <<<<"    // Compute geometry tensors">>>> \o RealLines(computed)
     ELSE <<<<"    // Compute geometry tensors">>>> \o ZeroLines(zeroed))
    \o (IF ~opts["debug-no-element-tensor"]
        THEN <<<<>>, <<"    // Compute element tensor">>>> \o TensorEntryLines(entries)
        ELSE <<>>)

\* dolfinswig.__eval_interior_default
EvalInteriorDefault(f, opts) == EvalDefault(f, opts, f.AKi.gK, f.AKi.gK, f.AKi.aK)

\* dolfinswig.__eval_boundary_default
EvalBoundaryDefault(f, opts) == EvalDefault(f, opts, f.AKb.gK, f.AKi.gK, f.AKb.aK)

\* A call of the back end that leaves the format dictionaries alone.
BackendCall(name, arguments, result) ==
    /\ op' = name
    /\ args' = arguments
    /\ ret' = result
    /\ err' = "none"
    /\ UNCHANGED <<terms, node_code, calls, terminal, expo, self, driver>>

ComputeCoefficientsCall ==
    \E cK_used \in {{}, {FormatCoefficient(0, 0)}} :
    \E r \in {ComputeCoefficients(projections, cK_used)} :
        BackendCall("compute_coefficients", <<projections, cK_used>>, r)

EvalInteriorCall ==
    /\ ~options["blas"]
    /\ \E r \in {EvalInteriorDefault(the_form, options)} :
          BackendCall("eval_interior_default", <<the_form, options>>, r)

EvalBoundaryCall ==
    /\ ~options["blas"]
    /\ \E r \in {EvalBoundaryDefault(the_form, options)} :
          BackendCall("eval_boundary_default", <<the_form, options>>, r)

\* build calls init of the module of the language with its options.
FormatInitCall(name, module, table) ==
    /\ op' = name
    /\ args' = <<options>>
    /\ ret' = NoValue
    /\ err' = "none"
    /\ format_tables' = [format_tables EXCEPT ![module] = table]
    /\ UNCHANGED <<terms, node_code, calls, terminal, expo, self, sums, language,
                   output, snippet, level, projections, the_form>>

DolfinInitCall ==
    /\ \E blas \in BOOLEAN : options' = [options EXCEPT !["blas"] = blas]
    /\ FormatInitCall("dolfin.init", "dolfin", DolfinInit(format_tables.dolfin, options'))

DolfinSwigInitCall ==
    /\ \E blas \in BOOLEAN : options' = [options EXCEPT !["blas"] = blas]
    /\ FormatInitCall("dolfinswig.init", "dolfinswig",
                      DolfinSwigInit(format_tables.dolfinswig, options'))

NextBackend ==
    \/ ComputeCoefficientsCall
    \/ EvalInteriorCall
    \/ EvalBoundaryCall
    \/ DolfinInitCall
    \/ DolfinSwigInitCall

\* The entries of a projection matrix: -1.0, 0.0, half of FFC_EPSILON, 1.0
\* and 2.0.
MatrixEntries == {0 - OneValue, 0, 1, OneValue, 2 * OneValue}

ProjectionInputs ==
    {[n0 |-> 0, n1 |-> 0, spacedim |-> MaxColumns, P |-> [none |-> TRUE, rows |-> <<>>]]}
    \cup {[n0 |-> 0, n1 |-> 0, spacedim |-> MaxColumns, P |-> [none |-> FALSE, rows |-> <<row>>]] :
             row \in [1..MaxColumns -> MatrixEntries]}

\* The lists of declarations of a form: none, one that is used, one that is not.
DeclarationLists(name) ==
    {<<>>} \cup {<<Declaration(<<name>>, <<name, "_value">>, used)>> : used \in BOOLEAN}

FormInputs ==
    {[cK |-> cK,
      AKi |-> [gK |-> gKi, aK |-> <<Declaration(<<"block[0]">>, <<"Ai">>, TRUE)>>],
      AKb |-> [gK |-> gKb, aK |-> <<Declaration(<<"block[0]">>, <<"Ab">>, TRUE)>>]] :
        cK \in DeclarationLists("c0_0"), gKi \in DeclarationLists("Gi0"),
        gKb \in DeclarationLists("Gb0")}

BackendOptions ==
    [{"blas", "no-gpl", "debug-no-geometry-tensor", "debug-no-element-tensor"} -> BOOLEAN]

InitBackend ==
    /\ op = "init"
    /\ args = <<>>
    /\ ret = NoValue
    /\ err = "none"
    /\ terms = <<>>
    /\ node_code = <<>>
    /\ calls = 0
    /\ terminal = <<>>
    /\ expo = <<>>
    /\ optimise_options = [o \in OptionNames |-> TRUE]
    /\ restriction = "None"
    /\ points = 1
    /\ psi_tables_map = <<>>
    /\ used_psi_tables = {}
    /\ ip_consts = {}
    /\ geo_consts = {}
    /\ sums = <<>> /\ language = "" /\ output = <<>>
    /\ options \in {o \in BackendOptions : ~o["blas"] /\ ~o["no-gpl"]}
    /\ snippet = <<>> /\ level = 0
    /\ format_tables = [dolfin |-> DolfinFormat, dolfinswig |-> DolfinSwigFormat]
    /\ projections \in {<<p>> : p \in ProjectionInputs}
    /\ the_form \in FormInputs

SpecBackend == InitBackend /\ [][NextBackend]_vars

(***************************************************************************)
(* Properties of the handlers.                                             *)
(***************************************************************************)
IsAscending(key) == \A i \in 1..(Len(key) - 1) : key[i] <= key[i + 1]

Occurrences(s, x) == Cardinality({i \in 1..Len(s) : s[i] = x})

SameBag(s, t) ==
    /\ Len(s) = Len(t)
    /\ \A i \in 1..Len(s) : Occurrences(s, s[i]) = Occurrences(t, s[i])

RECURSIVE Join(_)
Join(s) == IF s = <<>> THEN <<>> ELSE Head(s) \o Join(Tail(s))

ExactlyScalar(m) == DOMAIN m = {<<>>}
Indexed(m) == DOMAIN m # {} /\ DOMAIN m # {<<>>}

\* S and P of a product: the scalar values, and the other non-empty maps.
ScalarFactors(operands) ==
    LET sel == SelectSeq(operands, ExactlyScalar)
    IN  [i \in 1..Len(sel) |-> sel[i][<<>>]]

IndexedOperands(operands) == SelectSeq(operands, Indexed)

\* The elements of the Cartesian product of the key sets of the maps in P.
Combinations(P) == {c \in [1..Len(P) -> Keys] : \A i \in 1..Len(P) : c[i] \in DOMAIN P[i]}

ChosenValues(P, c) == [i \in 1..Len(P) |-> P[i][c[i]]]

Collides(P) ==
    \E c, d \in Combinations(P) :
        c # d /\ SameBag(Join(c), Join(d))

\* C1: division fails with the transformer's error, and returns no map,
\* whenever the denominator map is anything but one entry at the key ().
C1_NonScalarDenominatorIsAnError ==
    (op = "division" /\ Len(args) = 2 /\ DOMAIN args[2] # {<<>>}) => err = "error"

\* C2: product returns {(): create_product(S)} when no operand is indexed;
\* otherwise, unless two combinations sort to one key (when it raises), it
\* returns one entry per element of the Cartesian product of the key sets
\* of P, holding create_product of the chosen values followed by S.
C2_ProductEntries ==
    op = "product" =>
        LET S == ScalarFactors(args)
            P == IndexedOperands(args)
        IN  IF P = <<>>
            THEN err = "none" /\ ret = (<<>> :> CreateProduct(S))
            ELSE IF Collides(P) THEN err # "none"
            ELSE /\ err = "none"
                 /\ Cardinality(DOMAIN ret) = Cardinality(Combinations(P))
                 /\ \A c \in Combinations(P) :
                        \E key \in DOMAIN ret :
                            /\ SameBag(key, Join(c))
                            /\ ret[key] = CreateProduct(ChosenValues(P, c) \o S)

C2_Witness ==
    /\ op = "product" /\ err = "none"
    /\ Len(IndexedOperands(args)) = 2
    /\ Len(ScalarFactors(args)) = 1
    /\ Cardinality(DOMAIN ret) = 2

\* C3: every key of the map product returns is sorted in ascending order,
\* and product raises an error when two distinct combined keys sort to the
\* same tuple.
C3_SortedKeysOrError ==
    op = "product" =>
        /\ err = "none" => \A key \in DOMAIN ret : IsAscending(key)
        /\ Collides(IndexedOperands(args)) => (err = "error" /\ ret = NoValue)

C3_Witness ==
    /\ op = "product" /\ err = "error"
    /\ Len(args) = 2
    /\ DOMAIN args[1] = {<<1>>, <<2>>}
    /\ DOMAIN args[2] = {<<1>>, <<2>>}

\* C4: for two operand maps whose keys each carry one free index,
\* product(a, b) and product(b, a) have the same key set and, at every key,
\* products of the same multiset of factors.
C4_ProductCommutes ==
    (/\ op = "product" /\ Len(args) = 2
     /\ \A i \in 1..2 : DOMAIN args[i] # {} /\ \A key \in DOMAIN args[i] : Len(key) = 1) =>
        LET other == Product(<<args[2], args[1]>>)
        IN  /\ other.err = err
            /\ err = "none" =>
                /\ DOMAIN other.val = DOMAIN ret
                /\ \A key \in DOMAIN ret :
                        /\ ret[key].k = "prod" /\ other.val[key].k = "prod"
                        /\ SameBag(ret[key].a, other.val[key].a)

C4_Witness ==
    /\ op = "product" /\ err = "none" /\ Len(args) = 2
    /\ DOMAIN args[1] = {<<2>>}
    /\ DOMAIN args[2] = {<<1>>}
    /\ DOMAIN ret = {<<1, 2>>}

\* C5: sum returns a map over the union of the operands' key sets; a key of
\* one operand keeps that operand's value and a key of several operands
\* holds create_sum of their values in operand order.
C5_SumMergesKeyWise ==
    op = "sum" =>
        /\ err = "none"
        /\ DOMAIN ret = UNION {DOMAIN args[i] : i \in 1..Len(args)}
        /\ \A key \in DOMAIN ret :
              LET holders == SelectSeq([i \in 1..Len(args) |-> i],
                                       LAMBDA i : key \in DOMAIN args[i])
                  values  == [j \in 1..Len(holders) |-> args[holders[j]][key]]
              IN  IF Len(holders) = 1 THEN ret[key] = values[1]
                  ELSE ret[key] = CreateSum(values)

C5_Witness ==
    /\ op = "sum" /\ err = "none" /\ Len(args) = 3
    /\ \E key \in DOMAIN ret : Cardinality({i \in 1..3 : key \in DOMAIN args[i]}) = 1
    /\ \E key \in DOMAIN ret :
          /\ Cardinality({i \in 1..3 : key \in DOMAIN args[i]}) = 3
          /\ ret[key].k = "sum" /\ Len(ret[key].a) = 3

(***************************************************************************)
(* Properties of the basis resolution and of the entries.                  *)
(***************************************************************************)
\* The component's basis table is flagged all-zero.
FlaggedZero(component, deriv) ==
    HasTable(component) /\ NameMap(<<>>, component, deriv).zeros

\* A zero option is set.
ZeroOptionSet ==
    optimise_options["ignore zero tables"] \/ optimise_options["remove zero terms"]

\* __create_mapping_basis, on a table flagged all-zero, returns the literal
\* 0.0 and leaves psi_tables_map alone.
ZeroTableStep ==
    (/\ op' = "create_mapping_basis"
     /\ args'.count \in {-2, -1, 0, 1}
     /\ FlaggedZero(args'.component, args'.deriv)) =>
        /\ err' = "none"
        /\ ret'[2] = CreateFloat(0)
        /\ psi_tables_map' = psi_tables_map

\* The entry built from the result of __create_mapping_basis on a table
\* flagged all-zero is reported zero and leaves used_psi_tables alone.
ZeroEntryStep ==
    (/\ op = "create_mapping_basis" /\ err = "none"
     /\ FlaggedZero(args.component, args.deriv)
     /\ op' = "create_entry_value") =>
        /\ err' = "none"
        /\ ret'[2] = TRUE
        /\ used_psi_tables' = used_psi_tables

\* C6, as stated: for a table flagged all-zero and every setting of the
\* options, __create_mapping_basis returns 0.0 and registers nothing, and
\* the entry built from it is zero and uses no table.
C6_ZeroTableEveryOption == [][ZeroTableStep /\ ZeroEntryStep]_vars

\* C6, amended: for a table flagged all-zero, when "ignore zero tables" or
\* "remove zero terms" is set, __create_mapping_basis returns 0.0 and adds
\* nothing to psi_tables_map, and the entry built from it is reported zero
\* and adds nothing to used_psi_tables.
C6_ZeroTableWithZeroOption ==
    [][ZeroOptionSet => (ZeroTableStep /\ ZeroEntryStep)]_vars

C6_Witness ==
    /\ op = "create_entry_value" /\ err = "none"
    /\ ZeroOptionSet
    /\ ret = <<CreateFloat(0), TRUE>>
    /\ terms = <<>>
    /\ <<>> \notin DOMAIN node_code
    /\ used_psi_tables = {}

\* C7: _create_entry_value returns (value, zero): value is the optimised
\* product of val, weight and the GEO symbol of the scale factor, zero is
\* true exactly when value is the literal 0.0, and used_psi_tables gains
\* the tables of the BASIS symbols of value when zero is false and is left
\* as it was when zero is true.
C7_EntryValue ==
    [][(op' = "create_entry_value" /\ err' = "none") =>
          LET product == CreateProduct(<<args'.val, args'.weight,
                                         CreateSymbol(args'.scale_factor, "GEO")>>)
              value   == ret'[1]
              zero    == ret'[2]
          IN  /\ value = OptimiseCode(product).expr
              /\ zero = (value = CreateFloat(0))
              /\ ~zero => used_psi_tables' = used_psi_tables \cup
                             {psi_tables_map[b] : b \in GetUniqueVars(value, "BASIS")}
              /\ zero => used_psi_tables' = used_psi_tables]_vars

C7_Witness ==
    /\ op = "create_entry_value" /\ err = "none"
    /\ ret[2] = FALSE
    /\ GetUniqueVars(ret[1], "BASIS") # {}
    /\ Cardinality(used_psi_tables) = 2

\* The elements of a sequence.
Range(s) == {s[i] : i \in 1..Len(s)}

\* The reference component, the multi-index and the geometric index c of
\* pass i of the loops of a terminal with arguments a.
PassesPerMulti(a) == IF a.transformation = AFFINE THEN 1 ELSE GeoDim
MultiOfPass(a, i) == a.multiindices[((i - 1) \div PassesPerMulti(a)) + 1]
COfPass(a, i) == (i - 1) % PassesPerMulti(a)
ComponentOfPass(a, i) ==
    IF a.transformation = AFFINE THEN a.component ELSE COfPass(a, i) + a.local_offset

\* The chain-rule symbols JINV(multi[i], derivatives[i]), in order of i.
ChainRule(a, multi) ==
    [i \in 1..Len(a.derivatives) |->
        CreateSymbol(<<"JINV", "_", ToString(multi[i]), ToString(a.derivatives[i]),
                       restriction>>, "GEO")]

\* The term of pass i built on the value inner (a basis or a function
\* value): the mixing factors of the mapping, inner, and the chain rule.
MixedTerm(a, i, inner) ==
    LET c     == ToString(COfPass(a, i))
        l     == ToString(a.local_comp)
        mixed == CASE a.transformation = AFFINE -> inner
                   [] a.transformation = COVARIANT_PIOLA ->
                        CreateProduct(<<CreateSymbol(<<"JINV", "_", c, l, restriction>>, "GEO"),
                                        inner>>)
                   [] a.transformation = CONTRAVARIANT_PIOLA ->
                        CreateProduct(<<CreateFraction(CreateFloat(1),
                                            CreateSymbol(<<"detJ", restriction>>, "GEO")),
                                        CreateSymbol(<<"J", "_", c, l, restriction>>, "GEO"),
                                        inner>>)
    IN  CreateProduct(Append(ChainRule(a, MultiOfPass(a, i)), mixed))

\* The basis value and the function name of pass i.
BasisOfPass(a, i) ==
    CreateMappingBasis(ComponentOfPass(a, i), DerivOf(MultiOfPass(a, i)), a.count,
                       psi_tables_map)
NameOfPass(a, i) == CreateFunctionName(ComponentOfPass(a, i), DerivOf(MultiOfPass(a, i)))

\* create_basis_function generated one term per pass, and the map it
\* returns holds, per mapping key, the sum of the terms of the key or the
\* lone term.
BasisFunctionTermsAsStated ==
    LET n == Len(args.multiindices) * PassesPerMulti(args)
    IN  /\ Len(terms) = n
        /\ \A i \in 1..n :
              /\ terms[i][1] = BasisOfPass(args, i).mapping
              /\ terms[i][2] = MixedTerm(args, i, BasisOfPass(args, i).basis)
        /\ DOMAIN ret = {terms[i][1] : i \in 1..n}
        /\ \A key \in DOMAIN ret :
              LET at == SelectSeq(terms, LAMBDA pr : pr[1] = key)
              IN  IF Len(at) = 1 THEN ret[key] = at[1][2]
                  ELSE ret[key] = CreateSum([j \in 1..Len(at) |-> at[j][2]])

\* create_function generated the terms of the passes in named, in order,
\* and returns their sum, the lone term, or 0.0 when there is none.
FunctionTermsOf(named) ==
    /\ Len(terms) = Len(named)
    /\ \A j \in 1..Len(named) :
          terms[j] = MixedTerm(args, named[j], NameOfPass(args, named[j]).expr)
    /\ ret = IF terms = <<>> THEN CreateFloat(0)
             ELSE IF Len(terms) = 1 THEN terms[1]
             ELSE CreateSum(terms)

AllPasses == [i \in 1..(Len(args.multiindices) * PassesPerMulti(args)) |-> i]

Supported == {AFFINE, COVARIANT_PIOLA, CONTRAVARIANT_PIOLA}

C9_UnsupportedMappingFails ==
    (op \in {"create_basis_function", "create_function"}
     /\ args.transformation \notin Supported) =>
        (err # "none" /\ ret = NoValue)

\* C10: __create_mapping_basis fails with the transformer's error, before
\* any table lookup and with psi_tables_map as it was, when the slot count
\* is not -2, -1, 0 or 1; counts -2 and 0 select the first free index and
\* counts -1 and 1 the second.
C10_SlotCount ==
    [][op' = "create_mapping_basis" =>
          IF args'.count \notin {-2, -1, 0, 1}
          THEN err' = "error" /\ ret' = NoValue /\ psi_tables_map' = psi_tables_map
          ELSE err' = "none" =>
                 LET basis_map == ret'[1][1][2]
                     basis     == ret'[2]
                     index     == IF args'.count \in {-2, 0} THEN "j" ELSE "k"
                     other     == IF args'.count \in {-2, 0} THEN "k" ELSE "j"
                 IN  /\ other \notin Range(basis_map)
                     /\ basis.k = "sym" =>
                           (/\ basis.n[Len(basis.n) - 1] = index
                            /\ index \in Range(basis_map)
                            /\ other \notin Range(basis.n))]_vars

C10_Witness ==
    /\ op = "create_mapping_basis" /\ err = "error"
    /\ args.count = 2
    /\ ~HasTable(args.component)
    /\ psi_tables_map = <<>>

\* C11: the mapping __create_mapping_basis returns is (slot count, index
\* expression, loop range, d'), d' twice the space dimension under
\* restriction "+" or "-" and the space dimension without restriction; the
\* space dimension is added to the index expression under "-" only.
C11_MappingEntry ==
    [][(op' = "create_mapping_basis" /\ err' = "none") =>
          LET mapping   == ret'[1][1]
              basis_map == mapping[2]
              table     == NameMap(<<>>, args'.component, args'.deriv)
              fixed     == ret'[2] = CreateFloat(1)
              n         == Len(basis_map)
          IN  /\ Len(ret'[1]) = 1 /\ Len(mapping) = 4
              /\ mapping[1] = args'.count
              /\ mapping[3] = table.range
              /\ mapping[4] = IF restriction \in {"+", "-"} THEN 2 * SpaceDimension
                              ELSE SpaceDimension
              /\ IF restriction = "-"
                 THEN IF fixed
                      THEN basis_map = <<ToString(table.non_zeros[2][1] + SpaceDimension)>>
                      ELSE /\ n >= 5
                           /\ basis_map[1] = "(" /\ basis_map[n] = ")"
                           /\ basis_map[n - 2] = " + "
                           /\ basis_map[n - 1] = ToString(SpaceDimension)
                 ELSE /\ " + " \notin Range(basis_map)
                      /\ "(" \notin Range(basis_map)
                      /\ fixed => basis_map = <<ToString(table.non_zeros[2][1])>>]_vars

C11_Witness ==
    /\ op = "create_mapping_basis" /\ err = "none"
    /\ restriction = "-"
    /\ ret[1][1][4] = 2 * SpaceDimension
    /\ " + " \in Range(ret[1][1][2])
    /\ ret[2].k = "sym"

\* The component's basis table is flagged all-ones and has one column.
FlaggedOnes(component, deriv) ==
    /\ HasTable(component)
    /\ NameMap(<<>>, component, deriv).ones
    /\ NameMap(<<>>, component, deriv).range = 1

\* __create_mapping_basis, on a table of ones with one column, returns the
\* literal 1.0, leaves psi_tables_map alone and gives a fixed index.
OnesTableStep ==
    (/\ op' = "create_mapping_basis"
     /\ args'.count \in {-2, -1, 0, 1}
     /\ FlaggedOnes(args'.component, args'.deriv)) =>
        /\ err' = "none"
        /\ ret'[2] = CreateFloat(1)
        /\ psi_tables_map' = psi_tables_map
        /\ "j" \notin Range(ret'[1][1][2]) /\ "k" \notin Range(ret'[1][1][2])
        /\ ret'[1][1][2] =
              <<ToString(NameMap(<<>>, args'.component, args'.deriv).non_zeros[2][1]
                         + (IF restriction = "-" THEN SpaceDimension ELSE 0))>>

\* The geometry factors of pass i of a Piola mapping, after the chain rule.
GeometryFactors(a, i) ==
    LET c == ToString(COfPass(a, i))
        l == ToString(a.local_comp)
    IN  ChainRule(a, MultiOfPass(a, i)) \o
        (IF a.transformation = COVARIANT_PIOLA
         THEN <<CreateSymbol(<<"JINV", "_", c, l, restriction>>, "GEO")>>
         ELSE <<CreateFraction(CreateFloat(1), CreateSymbol(<<"detJ", restriction>>, "GEO")),
                CreateSymbol(<<"J", "_", c, l, restriction>>, "GEO")>>)

\* The Piola-mapped terms create_basis_function builds on a table of ones
\* with one column hold the geometry factors only.
OnesPiolaTerms ==
    (/\ op = "create_basis_function" /\ err = "none"
     /\ args.transformation \in {COVARIANT_PIOLA, CONTRAVARIANT_PIOLA}) =>
        \A i \in 1..Len(terms) :
            FlaggedOnes(ComponentOfPass(args, i), DerivOf(MultiOfPass(args, i))) =>
                \E term \in {terms[i][2]}, factors \in {GeometryFactors(args, i)} :
                    /\ GetUniqueVars(term, "BASIS") = {}
                    /\ term = CreateProduct(factors)

\* C12, as stated: on a table flagged all-ones with loop range 1,
\* __create_mapping_basis returns 1.0, registers no symbol and gives an
\* index expression without a free loop variable; the Piola-mapped term
\* built from it holds the geometry factors and no basis-table symbol.
C12_OnesTable == [][OnesTableStep /\ OnesPiolaTerms']_vars

\* C12, amended: the same, when the option "ignore ones" is set.
C12_OnesTableWithOption ==
    [][optimise_options["ignore ones"] => (OnesTableStep /\ OnesPiolaTerms')]_vars

C12_Witness ==
    /\ op = "create_basis_function" /\ err = "none"
    /\ optimise_options["ignore ones"]
    /\ args.transformation = CONTRAVARIANT_PIOLA
    /\ restriction = "-"
    /\ \E i \in 1..Len(terms) :
          /\ FlaggedOnes(ComponentOfPass(args, i), DerivOf(MultiOfPass(args, i)))
          /\ terms[i][2].k = "prod"
          /\ Len(terms[i][2].a) = 2
          /\ terms[i][1][1][2] = <<ToString(2 + SpaceDimension)>>

(***************************************************************************)
(* Properties of abs, of the math functions and of power.                  *)
(***************************************************************************)
\* C13: abs and a math function fail with an error, and return no map,
\* unless they are given exactly one operand whose map is exactly one
\* entry at the key ().
C13_WrapNeedsOneScalarOperand ==
    (/\ op \in {"abs", "math_function"}
     /\ ~(Len(args) = 1 /\ DOMAIN args[1] = {<<>>})) =>
        (err # "none" /\ ret = NoValue)

\* C14: for an integer exponent n >= 1 and a base map of one entry at the
\* key (), power returns one entry at () holding create_product of n copies
\* of the base value, and no symbol of a power function.
C14_IntegerPower ==
    (/\ op = "power"
     /\ expo[1] = "IntValue" /\ expo[2] >= 1
     /\ DOMAIN args[1] = {<<>>}) =>
        LET val == args[1][<<>>]
            n   == expo[2]
        IN  /\ err = "none"
            /\ DOMAIN ret = {<<>>}
            /\ ret[<<>>] = CreateProduct([i \in 1..n |-> val])
            /\ n = 1 => ret[<<>>] = val
            /\ n > 1 => (ret[<<>>].k = "prod" /\ ret[<<>>].a = [i \in 1..n |-> val])
            /\ "std::pow" \notin Range(ret[<<>>].n)

C14_Witness ==
    /\ op = "power" /\ err = "none"
    /\ expo = <<"IntValue", 3>>
    /\ DOMAIN args[1] = {<<>>}
    /\ ret[<<>>].k = "prod"
    /\ Len(ret[<<>>].a) = 3

OneArity(m) == \A key1, key2 \in DOMAIN m : Len(key1) = Len(key2)

\* C16: when every operand map of sum, product or division has keys of one
\* arity, so has the map the handler returns, for sum also when operands
\* differ in arity from one another.
C16_OneArity ==
    (/\ op \in {"sum", "product", "division"} /\ err = "none"
     /\ \A i \in 1..Len(args) : OneArity(args[i])) =>
        OneArity(ret)

\* The value create_basis_function hands to __apply_transform in pass i.
TransformedValue(a, i) ==
    IF a.transformation = AFFINE THEN BasisOfPass(a, i).basis
    ELSE CreateProduct(Append(PiolaFactors(a.transformation, COfPass(a, i), a.local_comp),
                              BasisOfPass(a, i).basis))

C18_OperandsUnchanged ==
    [][op' \in {"sum", "product", "division", "abs", "math_function"} =>
          args' = args]_vars

\* C19: with a denominator map {(): d}, division returns a map over the
\* numerator's keys that holds create_fraction(numerator[k], d) at k.
C19_DivisionByScalar ==
    (op = "division" /\ Len(args) = 2 /\ DOMAIN args[2] = {<<>>}) =>
        /\ err = "none"
        /\ DOMAIN ret = DOMAIN args[1]
        /\ \A key \in DOMAIN ret :
              /\ ret[key] = CreateFraction(args[1][key], args[2][<<>>])
              /\ ret[key].k = "frac"
              /\ ret[key].a = <<args[1][key], args[2][<<>>]>>

C19_Witness ==
    /\ op = "division" /\ err = "none"
    /\ DOMAIN args[2] = {<<>>}
    /\ DOMAIN ret = {<<>>, <<1>>, <<2>>}

\* The calls of the write of a format in what was put out.
WriteEvents(out) == {i \in 1..Len(out) : out[i].ev = "write"}

\* C20: compile has the effect and the result of build followed by write on
\* what build returned: build completes before write starts, write is
\* called at most once and only when build returned forms, and compile
\* returns what build returned.
C20_CompileIsBuildThenWrite ==
    [][/\ op' = "compile" =>
            \E b \in {Build(sums, DefaultName, language, options)} :
               /\ err' = b.err
               /\ b.err # "none" =>
                     /\ output' = b.output
                     /\ options' = b.options
                     /\ WriteEvents(output') = {}
               /\ (b.err = "none" /\ b.ret = None) =>
                     /\ ret' = None
                     /\ output' = b.output
                     /\ options' = b.options
                     /\ WriteEvents(output') = {}
               /\ (b.err = "none" /\ b.ret # None) =>
                     \E w \in {Write(b.ret, b.options)} :
                        /\ ret' = b.ret
                        /\ output' = b.output \o w.output
                        /\ options' = w.options
                        /\ WriteEvents(output') = {Len(output')}
       /\ (op = "build" /\ err = "none" /\ op' = "write" /\ ret # None) =>
            \E c \in {Compile(args.sums, args.name, args.language, args.options)} :
               /\ c.err = err'
               /\ c.ret = ret
               /\ c.options = options'
               /\ c.output = output']_vars

C20_Witness ==
    /\ op = "compile" /\ err = "none"
    /\ DOMAIN args.options = {}
    /\ ret.list /\ Len(ret.items) = MaxSums
    /\ Len(output) = 2 + 2 * MaxSums
    /\ output[Len(output)].ev = "write"

\* The calls that wrap a value in a symbol: abs, a math function, and power
\* with an exponent that is a FloatValue or a Function.
WrapCall ==
    \/ op' \in {"abs", "math_function"}
    \/ op' = "power" /\ expo[1] \in {"FloatValue", "Function"}

\* C21: power with a float or a function exponent, abs and a math function
\* produce, per value, one symbol with the domain tag of the operand value
\* it wraps, that value as base_expr and base_op 1; the keys of the result
\* are those of the operand map for a math function, and the empty key alone
\* for power and abs.
C21_WrappedSymbol ==
    [][(WrapCall /\ err' = "none") =>
          /\ DOMAIN ret' = (IF op' = "math_function" THEN DOMAIN args[1] ELSE {<<>>})
          /\ \A key \in DOMAIN ret' :
                /\ ret'[key].k = "sym"
                /\ ret'[key].t = args[1][key].t
                /\ ret'[key].b = <<args[1][key]>>
                /\ ret'[key].o = 1]_vars

C21_Witness ==
    /\ op = "math_function" /\ err = "none"
    /\ Cardinality(DOMAIN ret) = 2
    /\ \E key \in DOMAIN ret : ret[key].t = "BASIS" /\ ret[key].b[1].k = "sym"
    /\ \E key \in DOMAIN ret : ret[key].t = "GEO"

\* The terms of a form have one primary rank.
EqualRanks(form) == \A i, j \in 1..Len(form.sum) : form.sum[i] = form.sum[j]

\* C22: build checks that all primary ranks are equal: it returns no form
\* whose interior and boundary terms differ in primary rank.
C22_RanksChecked ==
    (op \in {"build", "compile"} /\ err = "none") =>
        \A i \in 1..Len(ret.items) : EqualRanks(ret.items[i])

\* C23: Return(value) can be constructed for any value, and format_code of
\* it yields 'return ', the formatted value and ';', indented to the level.
C23_ReturnStatement ==
    [][/\ op' = "Return" => err' = "none"
       /\ (op = "Return" /\ op' = "format_code") =>
             ret' = Indent(JoinTexts(<<<<<<"return ">>>>, FormatCode(args[1], 0),
                                       <<<<";">>>>>>), level)]_vars

\* C30: format_code(Conditional(c, t, f)) yields the text of c, ' ? ', the
\* text of t, ' : ' and the text of f: the branch after '?' is the second
\* argument of the constructor and the branch after ':' the third.
C30_ConditionalBranches ==
    [][(op = "Conditional" /\ err = "none" /\ op' = "format_code") =>
          ret' = Indent(JoinTexts(<<FormatCode(args[1], 0), <<<<" ? ">>>>,
                                    FormatCode(args[2], 0), <<<<" : ">>>>,
                                    FormatCode(args[3], 0)>>), level)]_vars

\* C24: every BASIS-tagged symbol the transformer creates, in
\* __create_mapping_basis or by wrapping a BASIS-tagged value in power, abs
\* or a math function, has an entry in psi_tables_map, and the lookup of
\* _create_entry_value never fails on a missing key.
C24_BasisSymbolsRegistered ==
    /\ \A key \in DOMAIN node_code :
          GetUniqueVars(node_code[key], "BASIS") \subseteq DOMAIN psi_tables_map
    /\ op = "create_entry_value" => err # "KeyError"

\* C25: product places every operand map in exactly one of its two groups,
\* the maps to permute and the scalar values: no operand map, the one
\* without entries included, is left out of the result.
C25_EveryOperandGrouped ==
    (op = "product" /\ err = "none") =>
        \A i \in 1..Len(args) :
            /\ NeedsPermutation(args[i]) \/ IsScalarMap(args[i])
            /\ ~(NeedsPermutation(args[i]) /\ IsScalarMap(args[i]))

\* C26: power tells integer exponents apart: for a negative integer exponent
\* it does not return what it returns for the exponent 0, and two integer
\* exponents of different value give different results for the same base.
C26_IntegerExponentsDiffer ==
    (op = "power" /\ err = "none" /\ expo[1] = "IntValue") =>
        \A n \in (0 - 1)..MaxExponent :
            n # expo[2] => ret # Power(args[1], <<"IntValue", n>>).val

\* C27: in __compute_coefficients the declaration of row k of a projection
\* matrix P holds a term for column l exactly when the absolute value of
\* P[k][l] is at least FFC_EPSILON, whatever its sign: the bare coefficient
\* for an entry within FFC_EPSILON of 1, and the coefficient times the
\* formatted entry otherwise.
C27_TermsByAbsoluteValue ==
    (op = "compute_coefficients" /\ ~args[1][1].P.none) =>
        \A k \in 1..Len(ret) :
            ret[k].value = FormatSum(ProjectionTermsAsStated(args[1][1].n0,
                                                             args[1][1].P.rows[k]))

C29_BoundaryTensorsOnly ==
    op = "eval_boundary_default" =>
        ret = EvalDefault(args[1], args[2], args[1].AKb.gK, args[1].AKb.gK,
                          args[1].AKb.aK)

=============================================================================
